---- MODULE Spec2Model ----
(***************************************************************************)
(* A model of ai_doc.py, the Streamlit front-end of the AI Doctor          *)
(* Assistant.  One action is one user interaction: a run of main() with    *)
(* at most one button reporting a click, followed by the script run that   *)
(* st.rerun() starts when the Send handler reaches it.                     *)
(*                                                                         *)
(* Python values are modelled as follows.  str is a TLA+ string and the    *)
(* f-strings and "\n".join are string concatenation; a dict is a function  *)
(* whose DOMAIN is the set of keys it holds, so that `"k" in d` is         *)
(* "k" \in DOMAIN d; a list is a sequence; a (role, message) tuple is a    *)
(* pair.  The latitude and longitude floats are whole degrees.  A call of  *)
(* an external service (Gemini, Overpass, Streamlit's rerun) has an        *)
(* outcome [status, value]: it returns a value or raises an exception      *)
(* whose str() is value.                                                   *)
(***************************************************************************)
EXTENDS Integers, Sequences, FiniteSets, TLC

VARIABLES
    session_state,  \* st.session_state: a dict, keys "conversation" or none
    overpass,       \* what the Overpass API answers to a POST at present
    clicked,        \* the button that reported a click in the last interaction
    inputs,         \* the widget values the last interaction read
    gemini,         \* what the Gemini calls of the last interaction did
    api_calls,      \* the outbound calls the last interaction issued, in order
    ai_request,     \* the arguments of the last interaction's get_ai_response call
    shown,          \* st.error / st.info / st.write / result output of the last run
    rendered,       \* the conversation as lines 119-123 displayed it in the last run
    hospitals,      \* what get_nearby_hospitals returned in the last interaction
    sends,          \* number of Send clicks so far
    accepted        \* number of Send clicks with a non-empty key and non-empty text

vars ==
    <<session_state, overpass, clicked, inputs, gemini, api_calls, ai_request,
      shown, rendered, hospitals, sends, accepted>>

(***************************************************************************)
(* Bounds and input sets                                                   *)
(***************************************************************************)
MaxSends == 2
MaxElements == 2

ApiKeys == {"", "k"}
ModelNames == {"gemini-1.0-pro", "gemini-1.5-pro", "gemini-1.5-flash"}
UserTexts == {"", "a", "c"}
Replies == {"b"}
Latitudes == {0, 37}
Longitudes == {0, -122}
RadiusMin == 1000
RadiusMax == 10000
RadiusDefault == 5000
Radii == {RadiusMin, RadiusMax}

(***************************************************************************)
(* Python helpers                                                          *)
(***************************************************************************)
EmptyDict == [k \in {} |-> ""]

StrTruthy(s) == s # ""

NumTruthy(x) == x # 0

RECURSIVE Join(_, _)
Join(sep, lines) ==
    IF lines = <<>> THEN ""
    ELSE IF Len(lines) = 1 THEN lines[1]
    ELSE lines[1] \o sep \o Join(sep, Tail(lines))

(***************************************************************************)
(* Exceptions.  A raised exception carries the base class it derives from: *)
(* the errors of the Gemini client and of requests derive from Exception;  *)
(* Streamlit's RerunException is a script-control exception deriving from  *)
(* BaseException only.                                                     *)
(***************************************************************************)
RaisesOf(base, msg) == [status |-> "raises", value |-> msg, base |-> base]

Returns(v) == [status |-> "returns", value |-> v, base |-> ""]

Raises(msg) == RaisesOf("Exception", msg)

NotCalled == [status |-> "notcalled", value |-> "", base |-> ""]

\* A bare `except:` in its place: takes whatever is raised.
ExceptAnything(outcome) == outcome.status = "raises"

\* `except Exception as e`: the clause takes the exceptions deriving from Exception.
ExceptException(outcome) ==
    outcome.status = "raises" /\ outcome.base = "Exception"

\* st.rerun(): stops the script run by raising RerunException.
st_rerun == RaisesOf("BaseException", "")

(***************************************************************************)
(* The Gemini client, as the Send handler sees it                          *)
(***************************************************************************)
ConfigureErrors == {"invalid api key"}
ModelErrors == {"404 model not found"}
GenerateErrors == {"429 quota exceeded"}

GeminiIdle ==
    [configure |-> NotCalled, GenerativeModel |-> NotCalled,
     generate_content |-> NotCalled, list_models |-> NotCalled]

\* What one Send can meet: the first call that raises ends the calls.
GeminiBehaviours ==
    {[GeminiIdle EXCEPT !.configure = Raises(m)] : m \in ConfigureErrors}
    \cup {[GeminiIdle EXCEPT !.configure = Returns(""),
                             !.GenerativeModel = Raises(m)] : m \in ModelErrors}
    \cup {[GeminiIdle EXCEPT !.configure = Returns(""),
                             !.GenerativeModel = Returns(""),
                             !.generate_content = Raises(m)] : m \in GenerateErrors}
    \cup {[GeminiIdle EXCEPT !.configure = Returns(""),
                             !.GenerativeModel = Returns(""),
                             !.generate_content = Returns(t)] : t \in Replies}

full_prompt(user_input, conversation_history) ==
    "\n    You are an AI medical assistant. You can provide general medical information and suggestions, "
    \o "\n    but you should always clarify that you're not a licensed medical professional and your advice "
    \o "\n    should not replace professional medical consultation."
    \o "\n    "
    \o "\n    Based on the following symptoms, provide:"
    \o "\n    1. Possible causes"
    \o "\n    2. Recommended next steps"
    \o "\n    3. When they should seek immediate medical attention"
    \o "\n    "
    \o "\n    User's symptoms: " \o user_input
    \o "\n    "
    \o "\n    Previous conversation for context:"
    \o "\n    " \o conversation_history
    \o "\n    "

\* get_ai_response handing back the bare message of what was raised.
get_ai_response_Bare(user_input, conversation_history, outcome) == outcome.value

\* get_ai_response: model.generate_content(full_prompt) under try / except Exception.
get_ai_response(user_input, conversation_history, outcome) ==
    IF ExceptException(outcome)
    THEN "Error generating response: " \o outcome.value
    ELSE outcome.value

(***************************************************************************)
(* The Conversation Store: st.session_state.conversation                   *)
(***************************************************************************)
HasConversation(ss) == "conversation" \in DOMAIN ss

\* The assignment of line 116 without the test of line 115.
InitConversation_Always(ss) ==
    [k \in DOMAIN ss \cup {"conversation"} |->
        IF k = "conversation" THEN <<>> ELSE ss[k]]

\* Lines 115-116: created on the first run, kept afterwards.
InitConversation(ss) ==
    IF ~HasConversation(ss)
    THEN [k \in DOMAIN ss \cup {"conversation"} |->
            IF k = "conversation" THEN <<>> ELSE ss[k]]
    ELSE ss

SetConversation(ss, conv) == [ss EXCEPT !["conversation"] = conv]

\* The store as a sequence, empty before its creation.
Conversation == IF HasConversation(session_state) THEN session_state["conversation"] ELSE <<>>

\* Lines 119-123: one block per turn, "You" for user turns.
DisplayConversation(conv) ==
    [i \in 1..Len(conv) |->
        <<IF conv[i][1] = "user" THEN "You" ELSE "AI Doctor", conv[i][2]>>]

\* The whole list in place of the slice.
WholeConversation(conv) == conv

\* conversation[:-1]
AllButLast(conv) == SubSeq(conv, 1, Len(conv) - 1)

\* f"{'User' if role == 'user' else 'AI'}: {msg}"
ContextLine(turn) == (IF turn[1] = "user" THEN "User" ELSE "AI") \o ": " \o turn[2]

\* Line 146
conversation_context(conv) ==
    LET prior == AllButLast(conv)
    IN  Join("\n", [i \in 1..Len(prior) |-> ContextLine(prior[i])])

NoRequest == [user_input |-> "", conversation_history |-> "", made |-> FALSE]

(***************************************************************************)
(* The Send handler, lines 129-160.  The result names how the run goes on: *)
(* "return" (line 132), "rerun" (line 155) or "continue" to line 162.      *)
(***************************************************************************)
SendResult(conv, calls, req, out, control) ==
    [conversation |-> conv, api_calls |-> calls, ai_request |-> req,
     shown |-> out, control |-> control]

\* The handler of lines 157-160 without the append of line 159.
SendExcept_NoAppend(conv, calls, req, e) ==
    SendResult(conv, calls, req, <<<<"error", "Error: " \o e.value>>>>, "continue")

\* Lines 157-160
SendExcept(conv, calls, req, e) ==
    SendResult(Append(conv, <<"ai", "Error: " \o e.value>>), calls, req,
               <<<<"error", "Error: " \o e.value>>>>, "continue")

\* `if api_key is None` in place of line 130: a text input is never None.
ApiKeyMissing_NoneOnly(api_key) == FALSE

\* Line 130
ApiKeyMissing(api_key) == ~StrTruthy(api_key)

SendHandler(conv, api_key, model_name, user_input, g) ==
    IF ApiKeyMissing(api_key)
    THEN SendResult(conv, <<>>, NoRequest,
                    <<<<"error", "Please enter your Gemini API Key in the sidebar.">>>>,
                    "return")
    ELSE IF ~StrTruthy(user_input)
    THEN SendResult(conv, <<>>, NoRequest, <<>>, "continue")
    ELSE
      LET c1 == Append(conv, <<"user", user_input>>)
          call1 == <<"genai.configure", api_key>>
          call2 == <<"genai.GenerativeModel", model_name>>
          context == conversation_context(c1)
          call3 == <<"model.generate_content", full_prompt(user_input, context)>>
          req == [user_input |-> user_input, conversation_history |-> context,
                  made |-> TRUE]
          response == get_ai_response(user_input, context, g.generate_content)
          c2 == Append(c1, <<"ai", response>>)
      IN  IF ExceptException(g.configure)
          THEN SendExcept(c1, <<call1>>, NoRequest, g.configure)
          ELSE IF ExceptException(g.GenerativeModel)
          THEN SendExcept(c1, <<call1, call2>>, NoRequest, g.GenerativeModel)
          ELSE IF ExceptException(st_rerun)
          THEN SendExcept(c2, <<call1, call2, call3>>, req, st_rerun)
          ELSE SendResult(c2, <<call1, call2, call3>>, req, <<>>, "rerun")

(***************************************************************************)
(* The Overpass API: what requests.post and response.json() do             *)
(***************************************************************************)
TagKeys == {"name", "phone", "addr:full"}

TagValue(k) ==
    CASE k = "name" -> "General Hospital"
      [] k = "phone" -> "555-1234"
      [] OTHER -> "1 Main St"

TagDicts == {[k \in D |-> TagValue(k)] : D \in SUBSET TagKeys}

Coordinate(k) == IF k = "lat" THEN 38 ELSE -122

\* The coordinates an element may carry: both, or one of the two missing.
CoordDicts == {[k \in D |-> Coordinate(k)] : D \in {{"lat", "lon"}, {"lon"}, {"lat"}}}

WithTags(coords, tags) ==
    [k \in DOMAIN coords \cup {"tags"} |-> IF k = "tags" THEN tags ELSE coords[k]]

\* An element without tags, and the elements with some.
Elements ==
    {[k \in {"lat", "lon"} |-> Coordinate(k)]}
    \cup {WithTags(c, t) : c \in CoordDicts, t \in TagDicts}

ElementLists == UNION {[1..n -> Elements] : n \in 0..MaxElements}

OverpassAnswer(post, json) == [post |-> post, json |-> json]

OverpassAnswers ==
    {OverpassAnswer(Raises("connection refused"), NotCalled),
     OverpassAnswer(Returns(""), Raises("Expecting value: line 1 column 1 (char 0)")),
     OverpassAnswer(Returns(""), Returns(EmptyDict))}
    \cup {OverpassAnswer(Returns(""), Returns([k \in {"elements"} |-> es])) :
            es \in ElementLists}

Named == WithTags([k \in {"lat", "lon"} |-> Coordinate(k)],
                  [k \in {"name", "phone"} |-> TagValue(k)])

Unnamed == WithTags([k \in {"lat", "lon"} |-> Coordinate(k)],
                    [k \in {"phone"} |-> TagValue(k)])

NoLatitude == WithTags([k \in {"lon"} |-> -122], [k \in {"name"} |-> TagValue(k)])

\* The answers the session-level specification draws from.
SampleAnswers ==
    {OverpassAnswer(Raises("connection refused"), NotCalled),
     OverpassAnswer(Returns(""), Returns([k \in {"elements"} |-> <<Named, Unnamed>>])),
     OverpassAnswer(Returns(""), Returns([k \in {"elements"} |-> <<Named, NoLatitude>>]))}

(***************************************************************************)
(* get_nearby_hospitals, lines 38-64                                       *)
(***************************************************************************)
\* d.get(k, default)
DictGet(d, k, default) == IF k \in DOMAIN d THEN d[k] ELSE default

\* d[k]: KeyError(k) when the key is missing; str(KeyError('lat')) is "'lat'".
Subscript(d, k) == IF k \in DOMAIN d THEN Returns(d[k]) ELSE Raises("'" \o k \o "'")

overpass_query(latitude, longitude, radius) ==
    "\n    [out:json];"
    \o "\n    node[\"amenity\"=\"hospital\"](around:" \o ToString(radius) \o ","
    \o ToString(latitude) \o "," \o ToString(longitude) \o ");"
    \o "\n    out body;"
    \o "\n    "

\* The test of line 52 without its second half.
HasTags(element) == "tags" \in DOMAIN element

\* Line 52
HasNameTag(element) ==
    "tags" \in DOMAIN element /\ "name" \in DOMAIN element["tags"]

\* The phone looked up only for an element that has an address.
PhoneOf_Coupled(tags) ==
    IF "addr:full" \in DOMAIN tags THEN DictGet(tags, "phone", "N/A") ELSE "N/A"

\* Line 55
PhoneOf(tags) == DictGet(tags, "phone", "N/A")

\* Line 58
AddressOf(tags) == DictGet(tags, "addr:full", "Address not available")

\* Lines 53-59: the dict display is evaluated in the order written.
HospitalRecord(element) ==
    LET lat == Subscript(element, "lat")
        lon == Subscript(element, "lon")
    IN  IF lat.status = "raises" THEN lat
        ELSE IF lon.status = "raises" THEN lon
        ELSE Returns([name |-> DictGet(element["tags"], "name", "Unnamed Hospital"),
                      phone |-> PhoneOf(element["tags"]),
                      lat |-> lat.value,
                      lon |-> lon.value,
                      address |-> AddressOf(element["tags"])])

\* The loop handing back what it found when a record cannot be built.
RECURSIVE CollectHospitals_KeepFound(_, _, _)
CollectHospitals_KeepFound(elements, i, acc) ==
    IF i > Len(elements) THEN Returns(acc)
    ELSE IF HasNameTag(elements[i])
    THEN LET rec == HospitalRecord(elements[i])
         IN  IF rec.status = "raises" THEN Returns(acc)
             ELSE CollectHospitals_KeepFound(elements, i + 1, Append(acc, rec.value))
    ELSE CollectHospitals_KeepFound(elements, i + 1, acc)

\* Lines 49-61: the loop over the elements from index i on, found so far in acc.
RECURSIVE CollectHospitals(_, _, _)
CollectHospitals(elements, i, acc) ==
    IF i > Len(elements) THEN Returns(acc)
    ELSE IF HasNameTag(elements[i])
    THEN LET rec == HospitalRecord(elements[i])
         IN  IF rec.status = "raises" THEN rec
             ELSE CollectHospitals(elements, i + 1, Append(acc, rec.value))
    ELSE CollectHospitals(elements, i + 1, acc)

\* Lines 46-61: the body of the try.
TryNearbyHospitals(answer) ==
    IF answer.post.status = "raises" THEN answer.post
    ELSE IF answer.json.status = "raises" THEN answer.json
    ELSE CollectHospitals(DictGet(answer.json.value, "elements", <<>>), 1, <<>>)

\* Line 47: one POST, whatever follows.
HospitalRequests(latitude, longitude, radius) ==
    <<<<"requests.post", overpass_query(latitude, longitude, radius)>>>>

get_nearby_hospitals(latitude, longitude, radius, answer) ==
    LET got == TryNearbyHospitals(answer)
    IN  IF ExceptException(got)
        THEN [hospitals |-> <<>>,
              api_calls |-> HospitalRequests(latitude, longitude, radius),
              shown |-> <<<<"error", "Error fetching hospital data: " \o got.value>>>>]
        ELSE [hospitals |-> got.value,
              api_calls |-> HospitalRequests(latitude, longitude, radius),
              shown |-> <<>>]

(***************************************************************************)
(* The hospital section of main, lines 166-205                             *)
(***************************************************************************)
\* Lines 193-201 (the two pictographs of the list entry are left out).
HospitalEntry(i, hospital) ==
    <<<<"markdown", "**" \o ToString(i) \o ". " \o hospital.name \o "**  \n"
                    \o hospital.phone \o "  \n" \o hospital.address \o "  ">>>>
    \o (IF hospital.phone # "N/A"
        THEN <<<<"markdown", "[Call Hospital](tel:" \o hospital.phone \o ")">>>>
        ELSE <<>>)
    \o <<<<"markdown", "---">>>>

RECURSIVE HospitalList(_, _)
HospitalList(found, i) ==
    IF i > Len(found) THEN <<>>
    ELSE HospitalEntry(i, found[i]) \o HospitalList(found, i + 1)

\* Lines 170-203: a map with one marker per hospital and the list, or the notice.
ShowHospitals(found) ==
    IF found # <<>>
    THEN <<<<"folium_static", ToString(Len(found) + 1) \o " markers">>,
           <<"subheader", "Hospital List">>>> \o HospitalList(found, 1)
    ELSE <<<<"info", "No hospitals found in the selected area. Try increasing the radius.">>>>

\* `or` in place of the `and` of line 167.
ValidCoordinates_Either(latitude, longitude) == NumTruthy(latitude) \/ NumTruthy(longitude)

\* Line 167
ValidCoordinates(latitude, longitude) == NumTruthy(latitude) /\ NumTruthy(longitude)

FindHandler(latitude, longitude, radius, answer) ==
    IF ValidCoordinates(latitude, longitude)
    THEN LET r == get_nearby_hospitals(latitude, longitude, radius, answer)
         IN  [hospitals |-> r.hospitals, api_calls |-> r.api_calls,
              shown |-> r.shown \o ShowHospitals(r.hospitals)]
    ELSE [hospitals |-> <<>>, api_calls |-> <<>>,
          shown |-> <<<<"error", "Please enter valid latitude and longitude.">>>>]

(***************************************************************************)
(* list_available_models, lines 67-73, and its button, lines 106-112       *)
(***************************************************************************)
ModelListings == {Returns(<<"models/gemini-1.5-pro">>), Raises("403 permission denied")}

list_available_models(outcome) ==
    IF ExceptException(outcome)
    THEN <<"Error listing models: " \o outcome.value>>
    ELSE outcome.value

ListHandler(api_key, outcome) ==
    LET names == list_available_models(outcome)
    IN  [api_calls |-> <<<<"genai.configure", api_key>>, <<"genai.list_models", "">>>>,
         shown |-> <<<<"write", "Available models:">>>>
                   \o [i \in 1..Len(names) |-> <<"write", "- " \o names[i]>>]]

(***************************************************************************)
(* The session                                                             *)
(***************************************************************************)
\* The widgets' initial values (lines 85-103, 126); the first option is selected.
WidgetDefaults ==
    [api_key |-> "", model_name |-> "gemini-1.0-pro", user_input |-> "",
     latitude |-> 37, longitude |-> -122, radius |-> RadiusDefault]

InitWith(answers) ==
    /\ session_state = EmptyDict
    /\ overpass \in answers
    /\ clicked = "none"
    /\ inputs = WidgetDefaults
    /\ gemini = GeminiIdle
    /\ api_calls = <<>>
    /\ ai_request = NoRequest
    /\ shown = <<>>
    /\ rendered = <<>>
    /\ hospitals = <<>>
    /\ sends = 0
    /\ accepted = 0

Init == InitWith(SampleAnswers)

\* A run of main with no button clicked: a page load or a widget edit.
Render ==
    /\ session_state' = InitConversation(session_state)
    /\ clicked' = "none"
    /\ inputs' = WidgetDefaults
    /\ gemini' = GeminiIdle
    /\ api_calls' = <<>>
    /\ ai_request' = NoRequest
    /\ shown' = <<>>
    /\ rendered' = DisplayConversation(InitConversation(session_state)["conversation"])
    /\ hospitals' = <<>>
    /\ UNCHANGED <<overpass, sends, accepted>>

\* The Gemini outcomes a Send handler consumed.
Consumed(g, r) ==
    IF r.api_calls = <<>> THEN GeminiIdle ELSE g

\* A click on Send, and the run st.rerun() starts when the handler reaches it.
Send ==
    /\ sends < MaxSends
    /\ \E api_key \in ApiKeys, model_name \in ModelNames, user_input \in UserTexts,
          g \in GeminiBehaviours :
         LET ss == InitConversation(session_state)
             before == ss["conversation"]
             r == SendHandler(before, api_key, model_name, user_input, g)
         IN  /\ session_state' = SetConversation(ss, r.conversation)
             /\ clicked' = "Send"
             /\ inputs' = [WidgetDefaults EXCEPT
                              !.api_key = api_key,
                              !.user_input = user_input,
                              !.model_name =
                                  IF Len(r.api_calls) >= 2 THEN model_name ELSE @]
             /\ gemini' = Consumed(g, r)
             /\ api_calls' = r.api_calls
             /\ ai_request' = r.ai_request
             /\ shown' = r.shown
             /\ rendered' = IF r.control = "rerun"
                            THEN DisplayConversation(r.conversation)
                            ELSE DisplayConversation(before)
             /\ hospitals' = <<>>
             /\ sends' = sends + 1
             /\ accepted' = IF StrTruthy(api_key) /\ StrTruthy(user_input)
                            THEN accepted + 1 ELSE accepted
             /\ UNCHANGED overpass

\* A click on Find Nearby Hospitals.
FindNearbyHospitals ==
    \E latitude \in Latitudes, longitude \in Longitudes, radius \in Radii :
        LET ss == InitConversation(session_state)
            r == FindHandler(latitude, longitude, radius, overpass)
        IN  /\ session_state' = ss
            /\ clicked' = "Find Nearby Hospitals"
            /\ inputs' = [WidgetDefaults EXCEPT !.latitude = latitude,
                                                !.longitude = longitude,
                                                !.radius = radius]
            /\ gemini' = GeminiIdle
            /\ api_calls' = r.api_calls
            /\ ai_request' = NoRequest
            /\ shown' = r.shown
            /\ rendered' = DisplayConversation(ss["conversation"])
            /\ hospitals' = r.hospitals
            /\ UNCHANGED <<overpass, sends, accepted>>

\* A click on List Available Models, a button that exists while a key is entered.
ListAvailableModels ==
    \E api_key \in ApiKeys, outcome \in ModelListings :
        LET ss == InitConversation(session_state)
            r == ListHandler(api_key, outcome)
        IN  /\ StrTruthy(api_key)
            /\ session_state' = ss
            /\ clicked' = "List Available Models"
            /\ inputs' = [WidgetDefaults EXCEPT !.api_key = api_key]
            /\ gemini' = [GeminiIdle EXCEPT !.configure = Returns(""),
                                            !.list_models = outcome]
            /\ api_calls' = r.api_calls
            /\ ai_request' = NoRequest
            /\ shown' = r.shown
            /\ rendered' = DisplayConversation(ss["conversation"])
            /\ hospitals' = <<>>
            /\ UNCHANGED <<overpass, sends, accepted>>

Next == Render \/ Send \/ FindNearbyHospitals \/ ListAvailableModels

Spec == Init /\ [][Next]_vars

\* The Hospital Finder alone, over every answer the Overpass API may give.
InitFinder == InitWith(OverpassAnswers)

NextFinder == FindNearbyHospitals

SpecFinder == InitFinder /\ [][NextFinder]_vars

(***************************************************************************)
(* Properties.  What the statements say is written here from their own     *)
(* words, apart from the operators of the model above.                     *)
(***************************************************************************)
Turns(role) == Cardinality({i \in 1..Len(Conversation) : Conversation[i][1] = role})

LastTurn == Conversation[Len(Conversation)]

IsPrefix(s, t) == Len(s) <= Len(t) /\ SubSeq(t, 1, Len(s)) = s

GenerationFailed(g) == g.generate_content.status = "raises"

GenerationError(g) == "Error generating response: " \o g.generate_content.value

\* C1 as stated: after any N Send actions, whatever the key and the text, the
\* store holds exactly N user turns and exactly N assistant turns.
C1_TurnsPerSend == Turns("user") = sends /\ Turns("ai") = sends

\* C1, amended: the store holds exactly K user turns and exactly K assistant turns,
\* K the number of Send actions taken with a non-empty key and a non-empty text;
\* a failed generation call contributes one assistant turn holding the error string.
C1_TurnsPerAcceptedSend ==
    /\ Turns("user") = accepted
    /\ Turns("ai") = accepted
    /\ (clicked = "Send" /\ GenerationFailed(gemini))
          => LastTurn = <<"ai", GenerationError(gemini)>>

C1_Witness ==
    /\ sends = 2
    /\ accepted = 1
    /\ clicked = "Send"
    /\ GenerationFailed(gemini)

\* C2: a Send taken while the API key is empty issues no outbound call, shows the
\* validation error and leaves the store's contents as they were.
C2_EmptyKeySendIsInert ==
    [][(clicked' = "Send" /\ inputs'.api_key = "")
          => /\ api_calls' = <<>>
             /\ shown' = <<<<"error", "Please enter your Gemini API Key in the sidebar.">>>>
             /\ Conversation' = Conversation]_vars

C2_Witness ==
    /\ clicked = "Send"
    /\ inputs.api_key = ""
    /\ inputs.user_input = "a"
    /\ Len(Conversation) = 2
    /\ api_calls = <<>>

ContextLabel(turn) ==
    CASE turn[1] = "user" -> "User: " \o turn[2]
      [] turn[1] = "ai" -> "AI: " \o turn[2]

RECURSIVE SerializeForContext(_)
SerializeForContext(turns) ==
    IF turns = <<>> THEN ""
    ELSE IF Len(turns) = 1 THEN ContextLabel(turns[1])
    ELSE SerializeForContext(SubSeq(turns, 1, Len(turns) - 1))
         \o "\n" \o ContextLabel(turns[Len(turns)])

\* C3: on a Send that reaches the generation call, the context passed is the
\* "User: "/"AI: " lines of the turns the store held before the Send, newline-joined
\* in order; the new message is passed as the user text and is the turn appended
\* next; turns (user,a),(assistant,b) and the new text c give "User: a\nAI: b".
C3_ContextIsPriorTurns ==
    [][ai_request'.made
          => /\ ai_request'.conversation_history = SerializeForContext(Conversation)
             /\ ai_request'.user_input = inputs'.user_input
             /\ IsPrefix(Append(Conversation, <<"user", ai_request'.user_input>>),
                         Conversation')
             /\ (Conversation = <<<<"user", "a">>, <<"ai", "b">>>>
                    => ai_request'.conversation_history = "User: a\nAI: b")]_vars

C3_Witness ==
    /\ ai_request.made
    /\ ai_request.user_input = "c"
    /\ ai_request.conversation_history = "User: a\nAI: b"
    /\ Conversation[3] = <<"user", "c">>

\* C4: when the generation call raises during a Send, the store gains the user turn
\* and, directly after it, one assistant turn "Error generating response: <message>";
\* a Send taken right after one that failed so, whose generation returns, appends its
\* user turn and the reply as usual.
C4_GenerationErrorIsAReply ==
    [][/\ (clicked' = "Send" /\ GenerationFailed(gemini'))
            => Conversation' = Conversation \o <<<<"user", inputs'.user_input>>,
                                                 <<"ai", GenerationError(gemini')>>>>
       /\ (/\ clicked = "Send" /\ GenerationFailed(gemini)
           /\ clicked' = "Send" /\ gemini'.generate_content.status = "returns")
            => Conversation' = Conversation \o <<<<"user", inputs'.user_input>>,
                                                 <<"ai", gemini'.generate_content.value>>>>
      ]_vars

C4_Witness ==
    /\ clicked = "Send"
    /\ gemini.generate_content.status = "returns"
    /\ Len(Conversation) = 4
    /\ Conversation[2] = <<"ai", "Error generating response: 429 quota exceeded">>
    /\ Conversation[4] = <<"ai", "b">>

\* The last interaction called the Hospital Finder.
Searched == clicked = "Find Nearby Hospitals" /\ api_calls # <<>>

Answered == overpass.post.status = "returns" /\ overpass.json.status = "returns"

AnsweredElements ==
    IF "elements" \in DOMAIN overpass.json.value
    THEN overpass.json.value["elements"]
    ELSE <<>>

NameTagged(e) == "tags" \in DOMAIN e /\ "name" \in DOMAIN e["tags"]

NamedElements == SelectSeq(AnsweredElements, NameTagged)

\* The request was answered and the answer read to its end without an exception:
\* every element a record is built from carries both coordinates.
Parsed ==
    /\ Answered
    /\ \A i \in 1..Len(NamedElements) : {"lat", "lon"} \subseteq DOMAIN NamedElements[i]

\* C5: for a response that parses, search returns one record per element with a name
\* tag, in the elements' order, and none for an element without one.
C5_OneRecordPerNamedElement ==
    (Searched /\ Parsed)
        => /\ Len(hospitals) = Len(NamedElements)
           /\ \A i \in 1..Len(NamedElements) :
                /\ hospitals[i].name = NamedElements[i]["tags"]["name"]
                /\ hospitals[i].lat = NamedElements[i]["lat"]
                /\ hospitals[i].lon = NamedElements[i]["lon"]
                /\ hospitals[i].name # "Unnamed Hospital"

C5_Witness ==
    /\ Searched
    /\ Parsed
    /\ Len(AnsweredElements) = 2
    /\ NameTagged(AnsweredElements[1])
    /\ "tags" \in DOMAIN AnsweredElements[2]
    /\ ~NameTagged(AnsweredElements[2])
    /\ Len(hospitals) = 1

\* C6: a returned record carries its element's phone and addr:full tags when present,
\* and otherwise "N/A" and "Address not available", each on its own.
C6_PhoneAndAddressDefaults ==
    (Searched /\ Parsed)
        => \A i \in 1..Len(hospitals) :
             i <= Len(NamedElements)
               => LET tags == NamedElements[i]["tags"]
                  IN  /\ hospitals[i].phone =
                            IF "phone" \in DOMAIN tags THEN tags["phone"] ELSE "N/A"
                      /\ hospitals[i].address =
                            IF "addr:full" \in DOMAIN tags
                            THEN tags["addr:full"]
                            ELSE "Address not available"

C6_Witness ==
    /\ Searched
    /\ Len(hospitals) = 2
    /\ hospitals[1].phone = "N/A"
    /\ hospitals[1].address = "1 Main St"
    /\ hospitals[2].phone = "555-1234"
    /\ hospitals[2].address = "Address not available"

\* C7: when the request fails or the response cannot be parsed (an exception while
\* building a record included), search returns the empty sequence, an error notice
\* is shown, one request was issued, and the caller goes on as for zero results.
C7_FailureIsZeroResults ==
    (Searched /\ ~Parsed)
        => /\ hospitals = <<>>
           /\ Len(api_calls) = 1
           /\ api_calls[1][1] = "requests.post"
           /\ Len(shown) = 2
           /\ shown[1][1] = "error"
           /\ shown[2] = <<"info",
                  "No hospitals found in the selected area. Try increasing the radius.">>

C7_Witness ==
    /\ Searched
    /\ Answered
    /\ Len(NamedElements) = 2
    /\ {"lat", "lon"} \subseteq DOMAIN NamedElements[1]
    /\ "lat" \notin DOMAIN NamedElements[2]
    /\ hospitals = <<>>
    /\ shown[1] = <<"error", "Error fetching hospital data: 'lat'">>

\* C8: the store is append-only: over any action its contents before are a prefix
\* of its contents after, and once created it stays.
C8_AppendOnly ==
    [][/\ IsPrefix(Conversation, Conversation')
       /\ HasConversation(session_state) => HasConversation(session_state')]_vars

C8_Witness ==
    /\ clicked = "Find Nearby Hospitals"
    /\ Len(Conversation) = 4

\* C9: the store alternates speakers starting with a user turn: its length is even,
\* odd positions hold user turns and even positions assistant turns.
C9_Alternates ==
    /\ Len(Conversation) % 2 = 0
    /\ \A i \in 1..Len(Conversation) :
         Conversation[i][1] = (IF i % 2 = 1 THEN "user" ELSE "ai")

C9_Witness ==
    /\ Len(Conversation) = 4
    /\ Conversation[2] = <<"ai", "Error: invalid api key">>
    /\ Conversation[4] = <<"ai", "b">>
    /\ clicked = "Send"
    /\ rendered = DisplayConversation(Conversation)

\* C10: Find Nearby Hospitals issues a geodata request exactly when latitude and
\* longitude are both non-zero; otherwise it shows the coordinates error only.
C10_RequestIffNonZero ==
    clicked = "Find Nearby Hospitals"
        => /\ (api_calls # <<>>) <=> (inputs.latitude # 0 /\ inputs.longitude # 0)
           /\ (inputs.latitude = 0 \/ inputs.longitude = 0)
                => /\ shown = <<<<"error", "Please enter valid latitude and longitude.">>>>
                   /\ hospitals = <<>>

C10_Witness ==
    /\ clicked = "Find Nearby Hospitals"
    /\ inputs.latitude = 0
    /\ inputs.longitude = -122
    /\ api_calls = <<>>
    /\ overpass.json.status = "returns"
    /\ Len(NamedElements) = 1

====
